---- MODULE Spec2Model ----
(***************************************************************************)
(* Data-access layer of the event-booking application.                     *)
(*                                                                         *)
(*   Spec      the transactional Booking operations of booking.utils.ts    *)
(*             (create / update / delete), run by concurrent callers       *)
(*             against the Booking and Event collections.                  *)
(*   SpecSlug  Event saves (event.model.ts pre('save') hook with           *)
(*             generateUniqueSlug) run by concurrent savers.               *)
(*                                                                         *)
(* Every action is one store round trip (one await) together with the      *)
(* synchronous code that runs after it up to the next await.               *)
(***************************************************************************)
EXTENDS Integers, Sequences, FiniteSets, TLC

\* ------------------------------------------------------------------ bounds
MaxCalls == 2      \* transactional Booking calls issued in one behaviour
MaxSaves == 3      \* Event saves issued in one behaviour
MaxConnCalls == 4  \* connectDB calls issued in one behaviour

\* ------------------------------------------------------------- input sets
Procs == {"p1", "p2"}
EventIds == {"e1", "e2"}
Deletable == {"e1"}     \* the Event another caller hard-deletes
BookingIds == 1..(MaxCalls + 1)

SP == " "
\* Raw email arguments.  A letter stands for one whole well-formed address
\* ("b" for b@x.io, "A" for A@X.IO); SP is a blank.
RawEmails == { <<"A", SP>>, <<"b">> }

\* ------------------------------------------------------ string functions
\* String.prototype.toLowerCase on one character
LowerChar(c) ==
    CASE c = "A" -> "a"
      [] c = "B" -> "b"
      [] OTHER -> c

ToLowerCase(s) == [i \in 1..Len(s) |-> LowerChar(s[i])]

RECURSIVE TrimLeft(_)
TrimLeft(s) == IF s # <<>> /\ Head(s) = SP THEN TrimLeft(Tail(s)) ELSE s

RECURSIVE TrimRight(_)
TrimRight(s) ==
    IF s # <<>> /\ s[Len(s)] = SP THEN TrimRight(SubSeq(s, 1, Len(s) - 1)) ELSE s

\* String.prototype.trim
Trim(s) == TrimRight(TrimLeft(s))

\* email.trim().toLowerCase()
NormalizeEmailDropCase(raw) == Trim(raw)
NormalizeEmail(raw) == ToLowerCase(Trim(raw))

\* The schema's email validator (required + address regex): exactly one
\* address, no blanks, nothing concatenated to it.
EmailValid(s) == Len(s) = 1 /\ s[1] \in {"a", "b", "A", "B"}

\* Titles given to Event saves.
Titles == { <<"A">>, <<"a", "!">>, <<"a", SP, "1">> }
\* _ids the client generates for new Event documents, in generation order.
EventOrder == <<"e1", "e2", "e3">>

MAX_ATTEMPTS == 100

\* .replace(/[^a-z0-9\s-]/g, '')
SlugChars == {"a", "b", "0", "1", "2", "3", "4", "5", "6", "7", "8", "9", SP, "-"}
RemoveSpecial(s) == SelectSeq(s, LAMBDA c : c \in SlugChars)

RECURSIVE DropRun(_, _)
DropRun(s, c) == IF s # <<>> /\ Head(s) = c THEN DropRun(Tail(s), c) ELSE s

\* .replace(/\s+/g, '-')
RECURSIVE SpacesToHyphen(_)
SpacesToHyphen(s) ==
    IF s = <<>> THEN <<>>
    ELSE IF Head(s) = SP THEN <<"-">> \o SpacesToHyphen(DropRun(s, SP))
    ELSE <<Head(s)>> \o SpacesToHyphen(Tail(s))

\* .replace(/-+/g, '-')
RECURSIVE CollapseHyphens(_)
CollapseHyphens(s) ==
    IF s = <<>> THEN <<>>
    ELSE IF Head(s) = "-" THEN <<"-">> \o CollapseHyphens(DropRun(s, "-"))
    ELSE <<Head(s)>> \o CollapseHyphens(Tail(s))

\* .replace(/^-|-$/g, '')
StripHyphenEnds(s) ==
    LET t == IF s # <<>> /\ Head(s) = "-" THEN Tail(s) ELSE s
    IN  IF t # <<>> /\ t[Len(t)] = "-" THEN SubSeq(t, 1, Len(t) - 1) ELSE t

generateSlug(title) ==
    StripHyphenEnds(CollapseHyphens(SpacesToHyphen(RemoveSpecial(Trim(ToLowerCase(title))))))

\* Number.prototype.toString of a non-negative integer, as in `${counter}`
DigitChar(d) ==
    CASE d = 0 -> "0" [] d = 1 -> "1" [] d = 2 -> "2" [] d = 3 -> "3" [] d = 4 -> "4"
      [] d = 5 -> "5" [] d = 6 -> "6" [] d = 7 -> "7" [] d = 8 -> "8" [] d = 9 -> "9"

RECURSIVE NumberToString(_)
NumberToString(n) ==
    IF n < 10 THEN <<DigitChar(n)>> ELSE NumberToString(n \div 10) \o <<DigitChar(n % 10)>>

\* `${baseSlug}-${counter}`
SuffixedFromZero(baseSlug, counter) == baseSlug \o <<"-">> \o NumberToString(counter - 1)
Suffixed(baseSlug, counter) == baseSlug \o <<"-">> \o NumberToString(counter)

\* ------------------------------------------------------------------ state
VARIABLES
    events,     \* Event collection: partial function EventId -> Event document
    bookings,   \* Booking collection (committed): BookingId -> Booking document
    nextId,     \* next _id the client generates (Booking _id in Spec, index into
                \* EventOrder in SpecSlug)
    calls,      \* calls issued so far (Booking calls in Spec, Event saves in SpecSlug)
    pc,         \* per caller: position in its current transactional call
    op,         \* per caller: the call and its arguments
    sess,       \* per caller: ClientSession  "none" | "open" | "ended"
    txn,        \* per caller: transaction    "none" | "active" | "committed" | "aborted" | "abandoned"
    pend,       \* per caller: the uncommitted write of its transaction (<<>> or <<w>>)
    rd,         \* per caller: the document its read returned (<<>> or <<doc>>)
    err,        \* per caller: the failure being propagated ("none" if none)
    ret,        \* per caller: the value returned to the caller
    saver,      \* per saver: state of an Event save in progress (SpecSlug)
    cached,     \* the process-wide cache  [conn, promise]  (0 is null; k > 0 is the
                \* k-th mongoose.connect promise, or the value it resolved with)
    attempts,   \* the mongoose.connect promises created so far: state and the
                \* continuations registered on each while it was pending
    jobs,       \* the microtask queue (FIFO): connectDB calls about to run and
                \* continuations of connectDB calls suspended at their await
    caller,     \* per caller of connectDB: position, promise awaited, result
    connCalls,  \* connectDB calls issued so far
    timeCall    \* a call of normalizeTime: its argument and its outcome

storeVars == <<events, bookings, nextId>>
callVars == <<pc, op, sess, txn, pend, rd, err, ret>>
connVars == <<cached, attempts, jobs, caller, connCalls>>
vars == <<events, bookings, nextId, calls, pc, op, sess, txn, pend, rd, err, ret, saver,
          cached, attempts, jobs, caller, connCalls, timeCall>>

NoOp == [kind |-> "none", eventId |-> "none", email |-> <<>>, bookingId |-> 0]
NoRet == [deleted |-> FALSE, booking |-> <<>>]
IdleSaver ==
    [pc |-> "idle", id |-> "none", isNew |-> FALSE, titleModified |-> FALSE,
     title |-> <<>>, loadedSlug |-> <<>>, baseSlug |-> <<>>, slug |-> <<>>,
     counter |-> 0, attempt |-> 0, err |-> "none",
     dateModified |-> FALSE, date |-> "", timeModified |-> FALSE, time |-> <<>>,
     ran |-> {}]

\* ------------------------------------------------------------ store model
BookingDoc(e, m, t) == [eventId |-> e, email |-> m, updatedAt |-> t]
KeyOf(doc) == <<doc.eventId, doc.email>>

\* Keys of the (eventId, email) unique index that a write by caller p on
\* document self must not take: keys of other committed documents and keys
\* claimed by writes of other open transactions.
CommittedKeys(self) == { KeyOf(bookings[b]) : b \in DOMAIN bookings \ {self} }
ClaimedKeys(p) ==
    { KeyOf(pend[q][1].doc) :
        q \in { r \in Procs \ {p} : pend[r] # <<>> /\ pend[r][1].kind # "delete" } }
UniqEventEmailNone(p, self) == {}
UniqEventEmailCommittedOnly(p, self) == CommittedKeys(self)
UniqEventEmail(p, self) == CommittedKeys(self) \cup ClaimedKeys(p)

\* Document b is being written by another open transaction.
LockedByOther(p, b) ==
    \E q \in Procs \ {p} : pend[q] # <<>> /\ pend[q][1].id = b

\* Any round trip to the store may fail for infrastructure reasons.
FaultChoices == {FALSE, TRUE}

\* The store after a transaction's write w is applied at commit.
ApplyKeepsDeleted(store, w) ==
    CASE w.kind = "insert" -> store @@ (w.id :> w.doc)
      [] w.kind = "update" -> [store EXCEPT ![w.id] = w.doc]
      [] w.kind = "delete" -> store

Apply(store, w) ==
    CASE w.kind = "insert" -> store @@ (w.id :> w.doc)
      [] w.kind = "update" -> [store EXCEPT ![w.id] = w.doc]
      [] w.kind = "delete" -> [b \in DOMAIN store \ {w.id} |-> store[b]]


\* ------------------------------------------ transactional Booking operations
\* mongoose.startSession() followed by session.startTransaction(), the two
\* statements every operation runs before its try block.  startSession may
\* reject (no session exists then); startTransaction may throw, and it does so
\* outside the try/finally, with the session already acquired.
Begin(p, o, first) ==
    /\ pc[p] \in IF p = "p1" THEN {"idle", "done"} ELSE {"idle"}
    /\ calls < MaxCalls
    /\ calls' = calls + 1
    /\ op' = [op EXCEPT ![p] = o]
    /\ pend' = [pend EXCEPT ![p] = <<>>]
    /\ rd' = [rd EXCEPT ![p] = <<>>]
    /\ ret' = [ret EXCEPT ![p] = NoRet]
    /\ \E how \in {"ok", "noSession", "noTxn"} :
         /\ sess' = [sess EXCEPT ![p] = IF how = "noSession" THEN "none" ELSE "open"]
         /\ txn' = [txn EXCEPT ![p] = IF how = "ok" THEN "active" ELSE "none"]
         /\ err' = [err EXCEPT ![p] =
                      CASE how = "ok" -> "none"
                        [] how = "noSession" -> "SessionError"
                        [] how = "noTxn" -> "TxnStartError"]
         /\ pc' = [pc EXCEPT ![p] = IF how = "ok" THEN first ELSE "done"]
    /\ UNCHANGED <<storeVars, saver, connVars, timeCall>>

\* A step inside the try block throws e: control goes to the catch block,
\* whose first statement is abortTransaction.
Throw(p, e) ==
    /\ err' = [err EXCEPT ![p] = e]
    /\ pc' = [pc EXCEPT ![p] = "abort"]

\* --- createBookingWithTransaction
CreateStart(p) ==
    \E e \in EventIds, m \in RawEmails :
        Begin(p, [kind |-> "create", eventId |-> e, email |-> m, bookingId |-> 0], "c_find")

CreateFindEventUnchecked(p) ==
    /\ pc[p] = "c_find"
    /\ \E f \in FaultChoices :
         IF f THEN Throw(p, "StoreError")
         ELSE IF ~EmailValid(NormalizeEmail(op[p].email)) THEN Throw(p, "ValidationError")
         ELSE /\ pc' = [pc EXCEPT ![p] = "c_hook"]
              /\ UNCHANGED err
    /\ UNCHANGED <<storeVars, calls, op, sess, txn, pend, rd, ret, saver, connVars, timeCall>>

\* Step 1: Event.findById(eventId).select('_id').session(session); on success
\* bookingData is built and Booking.create runs the schema validation.
CreateFindEvent(p) ==
    /\ pc[p] = "c_find"
    /\ \E f \in FaultChoices :
         IF f THEN Throw(p, "StoreError")
         ELSE IF op[p].eventId \notin DOMAIN events THEN Throw(p, "EventNotExist")
         ELSE IF ~EmailValid(NormalizeEmail(op[p].email)) THEN Throw(p, "ValidationError")
         ELSE /\ pc' = [pc EXCEPT ![p] = "c_hook"]
              /\ UNCHANGED err
    /\ UNCHANGED <<storeVars, calls, op, sess, txn, pend, rd, ret, saver, connVars, timeCall>>

\* Booking pre('save') hook of the new document: Event.findById without the
\* session, so it reads the collection as committed at this moment.
BookingPreSave(p) ==
    /\ pc[p] = "c_hook"
    /\ \E f \in FaultChoices :
         IF f THEN Throw(p, "HookDbError")
         ELSE IF op[p].eventId \notin DOMAIN events THEN Throw(p, "HookEventNotExist")
         ELSE /\ pc' = [pc EXCEPT ![p] = "c_insert"]
              /\ UNCHANGED err
    /\ UNCHANGED <<storeVars, calls, op, sess, txn, pend, rd, ret, saver, connVars, timeCall>>

\* Step 2: the insert of Booking.create([bookingData], { session }).
CreateInsert(p) ==
    /\ pc[p] = "c_insert"
    /\ LET doc == BookingDoc(op[p].eventId, NormalizeEmail(op[p].email), 0) IN
       \E f \in FaultChoices :
         IF f THEN Throw(p, "StoreError") /\ UNCHANGED <<pend, nextId>>
         ELSE IF KeyOf(doc) \in UniqEventEmail(p, 0)
              THEN Throw(p, "DuplicateKey") /\ UNCHANGED <<pend, nextId>>
         ELSE /\ pend' = [pend EXCEPT ![p] = <<[kind |-> "insert", id |-> nextId, doc |-> doc]>>]
              /\ nextId' = nextId + 1
              /\ pc' = [pc EXCEPT ![p] = "commit"]
              /\ UNCHANGED err
    /\ UNCHANGED <<events, bookings, calls, op, sess, txn, rd, ret, saver, connVars, timeCall>>

\* --- updateBookingWithTransaction
UpdateStart(p) ==
    \E b \in 1..nextId, m \in RawEmails :
        /\ b \in BookingIds
        /\ Begin(p, [kind |-> "update", eventId |-> "none", email |-> m, bookingId |-> b], "u_find")

\* Booking.findById(bookingId).session(session); on success the email is
\* assigned and booking.save validates the document.
UpdateFind(p) ==
    /\ pc[p] = "u_find"
    /\ \E f \in FaultChoices :
         IF f THEN Throw(p, "StoreError") /\ UNCHANGED rd
         ELSE IF op[p].bookingId \notin DOMAIN bookings
              THEN Throw(p, "BookingNotExist") /\ UNCHANGED rd
         ELSE /\ rd' = [rd EXCEPT ![p] = <<bookings[op[p].bookingId]>>]
              /\ IF ~EmailValid(NormalizeEmail(op[p].email))
                 THEN Throw(p, "ValidationError")
                 ELSE /\ pc' = [pc EXCEPT ![p] = "u_save"]
                      /\ UNCHANGED err
    /\ UNCHANGED <<storeVars, calls, op, sess, txn, pend, ret, saver, connVars, timeCall>>

\* The write of booking.save({ session }).  The transaction works on the
\* snapshot its read took: a document written or removed by a transaction that
\* committed since, or being written by an open one, is a write conflict.
\* (The Booking pre('save') hook makes no lookup here: eventId is unmodified.)
UpdateSave(p) ==
    /\ pc[p] = "u_save"
    /\ LET b == op[p].bookingId
           old == rd[p][1]
           doc == BookingDoc(old.eventId, NormalizeEmail(op[p].email), old.updatedAt + 1)
       IN
       \E f \in FaultChoices :
         IF f THEN Throw(p, "StoreError") /\ UNCHANGED pend
         ELSE IF LockedByOther(p, b) \/ b \notin DOMAIN bookings \/ bookings[b] # old
              THEN Throw(p, "WriteConflict") /\ UNCHANGED pend
         ELSE IF KeyOf(doc) \in UniqEventEmail(p, b)
              THEN Throw(p, "DuplicateKey") /\ UNCHANGED pend
         ELSE /\ pend' = [pend EXCEPT ![p] = <<[kind |-> "update", id |-> b, doc |-> doc]>>]
              /\ pc' = [pc EXCEPT ![p] = "commit"]
              /\ UNCHANGED err
    /\ UNCHANGED <<storeVars, calls, op, sess, txn, rd, ret, saver, connVars, timeCall>>

\* --- deleteBookingWithTransaction
DeleteStart(p) ==
    \E b \in 1..nextId :
        /\ b \in BookingIds
        /\ Begin(p, [kind |-> "delete", eventId |-> "none", email |-> <<>>, bookingId |-> b], "d_delete")

\* Booking.findByIdAndDelete(bookingId).session(session)
DeleteFindAndDelete(p) ==
    /\ pc[p] = "d_delete"
    /\ LET b == op[p].bookingId IN
       \E f \in FaultChoices :
         IF f THEN Throw(p, "StoreError") /\ UNCHANGED <<pend, rd>>
         ELSE IF b \notin DOMAIN bookings
              THEN /\ pc' = [pc EXCEPT ![p] = "commit"]
                   /\ UNCHANGED <<pend, rd, err>>
         ELSE IF LockedByOther(p, b)
              THEN Throw(p, "WriteConflict") /\ UNCHANGED <<pend, rd>>
         ELSE /\ rd' = [rd EXCEPT ![p] = <<bookings[b]>>]
              /\ pend' = [pend EXCEPT ![p] = <<[kind |-> "delete", id |-> b, doc |-> bookings[b]]>>]
              /\ pc' = [pc EXCEPT ![p] = "commit"]
              /\ UNCHANGED err
    /\ UNCHANGED <<storeVars, calls, op, sess, txn, ret, saver, connVars, timeCall>>

\* --- the common tail of the three operations
\* What the operation returns after its commit: the created or updated
\* Booking, or !!result for delete.
ReturnValueAlwaysTrue(p) ==
    IF op[p].kind = "delete"
    THEN [deleted |-> TRUE, booking |-> <<>>]
    ELSE [deleted |-> FALSE, booking |-> <<[id |-> pend[p][1].id, doc |-> pend[p][1].doc]>>]

ReturnValue(p) ==
    IF op[p].kind = "delete"
    THEN [deleted |-> rd[p] # <<>>, booking |-> <<>>]
    ELSE [deleted |-> FALSE, booking |-> <<[id |-> pend[p][1].id, doc |-> pend[p][1].doc]>>]

\* await session.commitTransaction(), then the return statement.
CommitTransaction(p) ==
    /\ pc[p] = "commit"
    /\ \E f \in FaultChoices :
         IF f THEN Throw(p, "StoreError") /\ UNCHANGED <<bookings, txn, pend, ret>>
         ELSE /\ bookings' = IF pend[p] = <<>> THEN bookings ELSE Apply(bookings, pend[p][1])
              /\ txn' = [txn EXCEPT ![p] = "committed"]
              /\ pend' = [pend EXCEPT ![p] = <<>>]
              /\ ret' = [ret EXCEPT ![p] = ReturnValue(p)]
              /\ pc' = [pc EXCEPT ![p] = "end"]
              /\ UNCHANGED err
    /\ UNCHANGED <<events, nextId, calls, op, sess, rd, saver, connVars, timeCall>>

\* catch block: await session.abortTransaction(), then the rethrow.  When the
\* abort itself rejects, that rejection is what leaves the catch block.
AbortTransaction(p) ==
    /\ pc[p] = "abort"
    /\ \E f \in FaultChoices :
         IF f THEN /\ err' = [err EXCEPT ![p] = "AbortError"]
                   /\ UNCHANGED <<txn, pend>>
         ELSE /\ txn' = [txn EXCEPT ![p] = "aborted"]
              /\ pend' = [pend EXCEPT ![p] = <<>>]
              /\ UNCHANGED err
    /\ pc' = [pc EXCEPT ![p] = "end"]
    /\ UNCHANGED <<storeVars, calls, op, sess, rd, ret, saver, connVars, timeCall>>

\* finally block: await session.endSession().  Ending a session discards a
\* transaction that is still open on it.
EndSession(p) ==
    /\ pc[p] = "end"
    /\ sess' = [sess EXCEPT ![p] = "ended"]
    /\ txn' = [txn EXCEPT ![p] = IF txn[p] = "active" THEN "abandoned" ELSE txn[p]]
    /\ pend' = [pend EXCEPT ![p] = <<>>]
    /\ pc' = [pc EXCEPT ![p] = "done"]
    /\ UNCHANGED <<storeVars, calls, op, rd, err, ret, saver, connVars, timeCall>>

\* Another caller hard-deletes an Event through the underlying store.
DeleteEvent(e) ==
    /\ e \in DOMAIN events
    /\ events' = [x \in DOMAIN events \ {e} |-> events[x]]
    /\ UNCHANGED <<bookings, nextId, calls, callVars, saver, connVars, timeCall>>

\* An Event document: the paths the pre('save') hook reads and writes.
EventRecord(t, s, d, tm) == [title |-> t, slug |-> s, date |-> d, time |-> tm]

\* A date and a time in canonical form.
CanonDate == "2025-03-07"
CanonTime == <<"1", "4", ":", "3", "0">>

\* An Event document saved with that date and time.
EventDoc(t, s) == EventRecord(t, s, CanonDate, CanonTime)

NoTimeCall == [pc |-> "idle", hour |-> <<>>, minute |-> <<>>, suffix |-> <<>>,
               arg |-> <<>>, ok |-> FALSE, value |-> <<>>]

\* ------------------------------------------------------- connection cache
Callers == {"c1", "c2", "c3"}
IdleCaller == [pc |-> "idle", on |-> 0, res |-> 0, failed |-> FALSE]

\* let cached = global.mongoose || { conn: null, promise: null }
ConnInit ==
    /\ cached = [conn |-> 0, promise |-> 0]
    /\ attempts = <<>>
    /\ jobs = <<>>
    /\ caller = [c \in Callers |-> IdleCaller]
    /\ connCalls = 0

Init ==
    /\ events = ("e1" :> EventDoc(<<"A">>, <<"a">>))
                @@ ("e2" :> EventDoc(<<"a", SP, "1">>, <<"a", "-", "1">>))
    /\ bookings = (1 :> BookingDoc("e1", <<"a">>, 0))
    /\ nextId = 2
    /\ calls = 0
    /\ pc = [p \in Procs |-> "idle"]
    /\ op = [p \in Procs |-> NoOp]
    /\ sess = [p \in Procs |-> "none"]
    /\ txn = [p \in Procs |-> "none"]
    /\ pend = [p \in Procs |-> <<>>]
    /\ rd = [p \in Procs |-> <<>>]
    /\ err = [p \in Procs |-> "none"]
    /\ ret = [p \in Procs |-> NoRet]
    /\ saver = [p \in Procs |-> IdleSaver]
    /\ ConnInit
    /\ timeCall = NoTimeCall

Next ==
    \/ \E p \in Procs : CreateStart(p)
    \/ \E p \in Procs : CreateFindEvent(p)
    \/ \E p \in Procs : BookingPreSave(p)
    \/ \E p \in Procs : CreateInsert(p)
    \/ \E p \in Procs : UpdateStart(p)
    \/ \E p \in Procs : UpdateFind(p)
    \/ \E p \in Procs : UpdateSave(p)
    \/ \E p \in Procs : DeleteStart(p)
    \/ \E p \in Procs : DeleteFindAndDelete(p)
    \/ \E p \in Procs : CommitTransaction(p)
    \/ \E p \in Procs : AbortTransaction(p)
    \/ \E p \in Procs : EndSession(p)
    \/ \E e \in Deletable : DeleteEvent(e)

Spec == Init /\ [][Next]_vars

\* ------------------------------------------------------------ normalizeTime
Digits == {"0", "1", "2", "3", "4", "5", "6", "7", "8", "9"}

\* parseInt of a string of one or two decimal digits
DigitValue(c) == CHOOSE d \in 0..9 : DigitChar(d) = c
ParseInt(s) == IF Len(s) = 1 THEN DigitValue(s[1]) ELSE 10 * DigitValue(s[1]) + DigitValue(s[2])

\* String.prototype.toUpperCase on the letters of AM / PM
UpperChar(c) ==
    CASE c = "a" -> "A"
      [] c = "p" -> "P"
      [] c = "m" -> "M"
      [] OTHER -> c
ToUpperCase(s) == [i \in 1..Len(s) |-> UpperChar(s[i])]

\* timeString.trim().match(/^(\d{1,2}):(\d{2})(\s*(AM|PM))?$/i): the groups
\* 1, 2 and 4 of the match, or no match.
MatchTime(timeString) ==
    LET t == Trim(timeString)
        hl == IF Len(t) >= 2 /\ t[1] \in Digits /\ t[2] = ":" THEN 1
              ELSE IF Len(t) >= 3 /\ t[1] \in Digits /\ t[2] \in Digits /\ t[3] = ":" THEN 2
              ELSE 0
        rest == SubSeq(t, hl + 4, Len(t))
        period == TrimLeft(rest)
    IN  IF /\ hl > 0
           /\ Len(t) >= hl + 3 /\ t[hl + 2] \in Digits /\ t[hl + 3] \in Digits
           /\ \/ rest = <<>>
              \/ ToUpperCase(period) \in { <<"A", "M">>, <<"P", "M">> }
        THEN [matched |-> TRUE, hours |-> SubSeq(t, 1, hl),
              minutes |-> SubSeq(t, hl + 2, hl + 3), period |-> ToUpperCase(period)]
        ELSE [matched |-> FALSE, hours |-> <<>>, minutes |-> <<>>, period |-> <<>>]

\* hours.toString().padStart(2, '0')
PadStart2(n) == IF n < 10 THEN <<"0">> \o NumberToString(n) ELSE NumberToString(n)

\* if (period === 'PM' && hours !== 12) hours += 12;
\* if (period === 'AM' && hours === 12) hours = 0;
To24Hour(hours, period) ==
    IF period = <<"P", "M">> /\ hours # 12 THEN hours + 12
    ELSE IF period = <<"A", "M">> /\ hours = 12 THEN 0
    ELSE hours

\* hours < 0 || hours > 23 || parseInt(minutes) < 0 || parseInt(minutes) > 59
InvalidTimeValues(hours, minutes) ==
    hours < 0 \/ hours > 23 \/ ParseInt(minutes) < 0 \/ ParseInt(minutes) > 59

normalizeTime(timeString) ==
    LET m == MatchTime(timeString)
        hours == To24Hour(ParseInt(m.hours), m.period)
    IN  IF ~m.matched THEN [ok |-> FALSE, value |-> <<>>]
        ELSE IF InvalidTimeValues(hours, m.minutes) THEN [ok |-> FALSE, value |-> <<>>]
        ELSE [ok |-> TRUE, value |-> PadStart2(hours) \o <<":">> \o m.minutes]

\* Time values assigned to Events.
TimeInputs == { <<"9", ":", "0", "5">>, <<"2", "5", ":", "0", "0">> }
\* Titles assigned to existing Events by edits.
EditTitles == { <<"a", "!">> }

\* ------------------------------------------------------------- Event saves
InFlight(p) == saver[p].pc \in {"lookup", "write"}

\* _id of a new Event document: the next one the client generates.
NewEventId == EventOrder[nextId]

\* Event.findOne({ slug }) without the $ne clause: the document being saved
\* counts as a holder of its own slug.
HeldByAnyone(slug, excludeId) == \E e \in DOMAIN events : events[e].slug = slug

\* Event.findOne({ slug, _id: { $ne: excludeId } }): some other Event holds slug.
HeldByOther(slug, excludeId) ==
    \E e \in DOMAIN events \ {excludeId} : events[e].slug = slug

\* The document a save is called on: its paths in memory, which of them are
\* modified, and the loop variables of the slug resolver (not yet entered).
\* loaded is the slug the document had when loaded; ran records the sections
\* of the hook that have run.
InMemoryDoc(id, new, t, tMod, loaded, d, dMod, tm, tmMod) ==
    [pc |-> "hook", id |-> id, isNew |-> new, titleModified |-> tMod,
     title |-> t, loadedSlug |-> loaded, baseSlug |-> <<>>, slug |-> loaded,
     counter |-> 0, attempt |-> 0, err |-> "none",
     dateModified |-> dMod, date |-> d, timeModified |-> tmMod, time |-> tm,
     ran |-> {}]

\* Entry of generateUniqueSlug(event.title, event._id): the loop variables
\* before the first lookup.
EnterResolver(s) ==
    [s EXCEPT !.pc = "lookup",
              !.baseSlug = generateSlug(s.title), !.slug = generateSlug(s.title),
              !.counter = 1, !.attempt = 0, !.ran = @ \cup {"slug"}]

\* normalizeDate on the date values used here: the ISO test of line 204, the
\* validity of new Date(...), and toISOString().split('T')[0].
DateInputs == {"2025-03-08T10:00:00Z", "2025-13-40"}
IsoDateShaped(d) == d \in {"2025-03-07", "2025-13-40"}
IsValidDate(d) == d \in {"2025-03-07", "2025-03-08T10:00:00Z"}
IsoDay(d) == IF d = "2025-03-08T10:00:00Z" THEN "2025-03-08" ELSE d

normalizeDate(dateString) ==
    IF IsoDateShaped(dateString)
    THEN [ok |-> IsValidDate(dateString), value |-> dateString]
    ELSE [ok |-> IsValidDate(dateString), value |-> IsoDay(dateString)]

\* The hook after the slug section: date and time are normalized if modified;
\* a value that cannot be normalized rejects the save.
NormalizeFields(s) ==
    LET d == normalizeDate(s.date)
        t == normalizeTime(s.time)
        s1 == IF s.dateModified
              THEN [s EXCEPT !.ran = @ \cup {"date"}, !.date = IF d.ok THEN d.value ELSE @]
              ELSE s
        s2 == IF s.timeModified
              THEN [s1 EXCEPT !.ran = @ \cup {"time"}, !.time = IF t.ok THEN t.value ELSE @]
              ELSE s1
    IN  IF s.dateModified /\ ~d.ok THEN [s1 EXCEPT !.pc = "done", !.err = "InvalidDate"]
        ELSE IF s.timeModified /\ ~t.ok THEN [s2 EXCEPT !.pc = "done", !.err = "InvalidTime"]
        ELSE [s2 EXCEPT !.pc = "write"]

\* EventSchema.pre('save') up to its first await (or to next() if it has
\* none): the slug is regenerated only if the title changed or the document
\* is new.
PreSaveAlwaysSlug(s) == EnterResolver(s)
PreSave(s) == IF s.titleModified \/ s.isNew THEN EnterResolver(s) ELSE NormalizeFields(s)

\* new Event({ title, date, time, ... }).save(): the title setter trims; every
\* path that was set counts as modified.
SaveNew(p) ==
    /\ ~InFlight(p)
    /\ calls < MaxSaves
    /\ calls' = calls + 1
    /\ nextId <= Len(EventOrder)
    /\ nextId' = nextId + 1
    /\ \E t \in Titles :
         saver' = [saver EXCEPT ![p] =
                     PreSave(InMemoryDoc(NewEventId, TRUE, Trim(t), TRUE, <<>>,
                                         CanonDate, TRUE, CanonTime, TRUE))]
    /\ UNCHANGED <<events, bookings, callVars, connVars, timeCall>>

\* An existing Event is loaded, its title assigned, and saved: the hook enters
\* the resolver only when isModified('title'); otherwise no lookup is made
\* and the save has nothing to write to title or slug.
SaveRename(p) ==
    /\ ~InFlight(p)
    /\ calls < MaxSaves
    /\ calls' = calls + 1
    /\ \E e \in DOMAIN events, t \in Titles :
         saver' = [saver EXCEPT ![p] =
                     PreSave(InMemoryDoc(e, FALSE, Trim(t), Trim(t) # events[e].title,
                                         events[e].slug,
                                         events[e].date, FALSE, events[e].time, FALSE))]
    /\ UNCHANGED <<events, bookings, nextId, callVars, connVars, timeCall>>

\* An existing Event is loaded, any of title, date and time assigned, and
\* saved.  Assigning a path the value it has does not modify it.
SaveEdit(p) ==
    /\ ~InFlight(p)
    /\ calls < MaxSaves
    /\ calls' = calls + 1
    /\ \E e \in DOMAIN events :
       \E t \in EditTitles \cup {events[e].title},
          d \in DateInputs \cup {events[e].date},
          tm \in TimeInputs \cup {events[e].time} :
         saver' = [saver EXCEPT ![p] =
                     PreSave(InMemoryDoc(e, FALSE, Trim(t), Trim(t) # events[e].title,
                                         events[e].slug,
                                         d, d # events[e].date, tm, tm # events[e].time))]
    /\ UNCHANGED <<events, bookings, nextId, callVars, connVars, timeCall>>

\* The loop condition attempt < MAX_ATTEMPTS, evaluated after attempt++.
LoopContinuesOnceMore(attempt) == attempt <= MAX_ATTEMPTS
LoopContinues(attempt) == attempt < MAX_ATTEMPTS

\* One iteration of the for loop of generateUniqueSlug: the findOne round trip
\* and what follows it.  A free slug is returned to the hook, which assigns it
\* (slug setters: lowercase, trim) and lets the save proceed to its write.
SlugLookup(p) ==
    /\ saver[p].pc = "lookup"
    /\ LET s == saver[p] IN
       \E f \in FaultChoices :
         IF f THEN saver' = [saver EXCEPT ![p].pc = "done", ![p].err = "SlugLookupError"]
         ELSE IF ~HeldByOther(s.slug, s.id)
              THEN saver' = [saver EXCEPT ![p] =
                               NormalizeFields([s EXCEPT !.slug = Trim(ToLowerCase(s.slug))])]
         ELSE IF LoopContinues(s.attempt + 1)
              THEN saver' = [saver EXCEPT ![p].slug = Suffixed(s.baseSlug, s.counter),
                                          ![p].counter = s.counter + 1,
                                          ![p].attempt = s.attempt + 1]
         ELSE saver' = [saver EXCEPT ![p].pc = "done", ![p].err = "SlugExhausted",
                                     ![p].slug = Suffixed(s.baseSlug, s.counter),
                                     ![p].counter = s.counter + 1,
                                     ![p].attempt = s.attempt + 1]
    /\ UNCHANGED <<events, bookings, nextId, calls, callVars, connVars, timeCall>>

\* The insert or update of the save, under the unique index on slug.
SlugIndexNone(slug, id) == FALSE
SlugIndexViolated(slug, id) == HeldByOther(slug, id)

\* The document after the save's write: a new document is inserted whole; an
\* existing one gets the paths that were modified (title, and slug when the
\* resolver returned another slug than the loaded one).
SlugWritten(s) == s.isNew \/ (s.titleModified /\ s.slug # s.loadedSlug)

Stored(s) ==
    IF s.isNew THEN events @@ (s.id :> EventRecord(s.title, s.slug, s.date, s.time))
    ELSE [events EXCEPT ![s.id] =
            EventRecord(IF s.titleModified THEN s.title ELSE @.title,
                        IF SlugWritten(s) THEN s.slug ELSE @.slug,
                        IF s.dateModified THEN s.date ELSE @.date,
                        IF s.timeModified THEN s.time ELSE @.time)]

EventWrite(p) ==
    /\ saver[p].pc = "write"
    /\ LET s == saver[p] IN
       \E f \in FaultChoices :
         IF f THEN /\ saver' = [saver EXCEPT ![p].pc = "done", ![p].err = "StoreError"]
                   /\ UNCHANGED events
         ELSE IF SlugWritten(s) /\ SlugIndexViolated(s.slug, s.id)
              THEN /\ saver' = [saver EXCEPT ![p].pc = "done", ![p].err = "DuplicateKey"]
                   /\ UNCHANGED events
         ELSE /\ events' = Stored(s)
              /\ saver' = [saver EXCEPT ![p].pc = "done"]
    /\ UNCHANGED <<bookings, nextId, calls, callVars, connVars, timeCall>>

InitSlug ==
    /\ events = <<>>
    /\ bookings = <<>>
    /\ nextId = 1
    /\ calls = 0
    /\ pc = [p \in Procs |-> "idle"]
    /\ op = [p \in Procs |-> NoOp]
    /\ sess = [p \in Procs |-> "none"]
    /\ txn = [p \in Procs |-> "none"]
    /\ pend = [p \in Procs |-> <<>>]
    /\ rd = [p \in Procs |-> <<>>]
    /\ err = [p \in Procs |-> "none"]
    /\ ret = [p \in Procs |-> NoRet]
    /\ saver = [p \in Procs |-> IdleSaver]
    /\ ConnInit
    /\ timeCall = NoTimeCall

NextSlug ==
    \/ \E p \in Procs : SaveNew(p)
    \/ \E p \in Procs : SaveRename(p)
    \/ \E p \in Procs : SlugLookup(p)
    \/ \E p \in Procs : EventWrite(p)

SpecSlug == InitSlug /\ [][NextSlug]_vars

\* Event creations issued one after another: a save starts only when no
\* other save is in flight.
NextSlugSeq ==
    \/ \E p \in Procs : SaveNew(p) /\ \A q \in Procs : ~InFlight(q)
    \/ \E p \in Procs : SlugLookup(p)
    \/ \E p \in Procs : EventWrite(p)

SpecSlugSeq == InitSlug /\ [][NextSlugSeq]_vars

\* ================================================================ properties
\* Failures that come from the infrastructure and not from the data: a call
\* whose err is none of these had all its round trips answered.
FaultErrors == {"SessionError", "TxnStartError", "StoreError", "HookDbError", "AbortError"}

Stepped(p) == pc'[p] # pc[p]

\* ---------------------------------------------------------------------- C1
\* C1: createBookingWithTransaction on an eventId that no Event has fails
\* with the 'does not exist' error of the in-transaction lookup, aborts its
\* transaction, ends its session, and none of its steps changes the Booking
\* collection or leaves a pending write.
C1_Step(p) ==
    /\ ( /\ pc[p] = "c_find" /\ Stepped(p)
         /\ op[p].eventId \notin DOMAIN events
         /\ err'[p] \notin FaultErrors )
       => ( /\ err'[p] = "EventNotExist" /\ pc'[p] = "abort"
            /\ pend'[p] = <<>> /\ bookings' = bookings )
    /\ ( /\ err[p] = "EventNotExist" /\ pc[p] \in {"abort", "end"} /\ Stepped(p)
         /\ err'[p] \notin FaultErrors )
       => ( /\ err'[p] = "EventNotExist" /\ bookings' = bookings /\ pend'[p] = <<>>
            /\ (pc[p] = "abort" => pc'[p] = "end" /\ txn'[p] = "aborted")
            /\ (pc[p] = "end" => pc'[p] = "done" /\ txn'[p] = "aborted" /\ sess'[p] = "ended") )

C1_Done(p) ==
    (pc[p] = "done" /\ err[p] = "EventNotExist")
    => ( /\ op[p].kind = "create" /\ txn[p] = "aborted" /\ sess[p] = "ended"
         /\ ret[p] = NoRet /\ pend[p] = <<>> )

\* C1: a create for an eventId no Event has ends with the 'does not exist'
\* error, its transaction aborted, its session ended, no Booking persisted.
C1_MissingEventAborts ==
    /\ [](\A p \in Procs : C1_Done(p))
    /\ [][\A p \in Procs : C1_Step(p)]_vars

C1_Witness ==
    \E p \in Procs :
        /\ pc[p] = "done" /\ op[p].kind = "create" /\ err[p] = "EventNotExist"
        /\ op[p].eventId \notin DOMAIN events
        /\ txn[p] = "aborted" /\ sess[p] = "ended"

\* ---------------------------------------------------------------------- C2
\* C2: whenever createBookingWithTransaction commits its Booking, the Event
\* the Booking references exists at that moment.
C2_EventExistsAtCommit ==
    [][\A p \in Procs :
          (op[p].kind = "create" /\ pc[p] = "commit" /\ txn'[p] = "committed")
          => op[p].eventId \in DOMAIN events]_vars

\* ---------------------------------------------------------------------- C3
\* C3: when exactly two calls have been issued, both are creates of the same
\* (eventId, normalized email) pair that was free beforehand, the Event exists
\* and both calls had their round trips answered, then one succeeded, the
\* other failed on the unique index, and one Booking holds the pair.
InitialKeys == { <<"e1", <<"a">>>> }

C3_Pair(p, q) ==
    /\ p # q /\ calls = 2
    /\ pc[p] = "done" /\ pc[q] = "done"
    /\ op[p].kind = "create" /\ op[q].kind = "create"
    /\ op[p].eventId = op[q].eventId
    /\ NormalizeEmail(op[p].email) = NormalizeEmail(op[q].email)
    /\ <<op[p].eventId, NormalizeEmail(op[p].email)>> \notin InitialKeys
    /\ op[p].eventId \in DOMAIN events
    /\ err[p] \notin FaultErrors /\ err[q] \notin FaultErrors

HoldersOf(key) == { b \in DOMAIN bookings : KeyOf(bookings[b]) = key }

C4_AtMostOnePerPair ==
    \A b1, b2 \in DOMAIN bookings :
        b1 # b2 =>
            ~( /\ bookings[b1].eventId = bookings[b2].eventId
               /\ ToLowerCase(Trim(bookings[b1].email)) = ToLowerCase(Trim(bookings[b2].email)) )

C4_Step(p) ==
    /\ ( /\ pc[p] = "u_save" /\ Stepped(p)
         /\ <<rd[p][1].eventId, ToLowerCase(Trim(op[p].email))>>
                \in { <<bookings[b].eventId, bookings[b].email>> :
                        b \in DOMAIN bookings \ {op[p].bookingId} } )
       => ( pc'[p] = "abort" /\ err'[p] # "none" /\ pend'[p] = <<>> /\ bookings' = bookings )
    /\ (pc[p] \in {"abort", "end"} /\ Stepped(p)) => bookings' = bookings

\* C4: at most one Booking per (eventId, trimmed lowercase email) in every
\* reachable state, and an update onto a booked pair fails changing nothing.
C4_UniquePair ==
    /\ []C4_AtMostOnePerPair
    /\ [][\A p \in Procs : C4_Step(p)]_vars

C4_Witness ==
    \E p \in Procs :
        /\ pc[p] = "done" /\ op[p].kind = "update" /\ err[p] = "DuplicateKey"
        /\ op[p].bookingId \in DOMAIN bookings
        /\ \E b \in DOMAIN bookings \ {op[p].bookingId} :
              /\ bookings[b].eventId = bookings[op[p].bookingId].eventId
              /\ bookings[b].email = NormalizeEmail(op[p].email)
              /\ bookings[b].email # bookings[op[p].bookingId].email

\* ---------------------------------------------------------------------- C5
\* C5: no operation terminates with the session it acquired still open.
C5_SessionEndedOnEveryExit ==
    \A p \in Procs : pc[p] = "done" => sess[p] # "open"

\* ---------------------------------------------------------------------- C6
\* C6: an operation that propagates a failure after beginning its transaction
\* has aborted the transaction and ended its session by then.
C6_FailureAbortedAndEnded ==
    \A p \in Procs :
        (pc[p] = "done" /\ err[p] # "none" /\ txn[p] # "none")
        => (txn[p] = "aborted" /\ sess[p] = "ended")

\* ---------------------------------------------------------------------- C7
\* C7: deleteBookingWithTransaction, when its round trips are answered and no
\* other transaction is writing the Booking, reaches its commit whether or not
\* the Booking was found; it returns true exactly when its commit removed the
\* Booking; for an id that is absent it does not throw, returns false and
\* changes nothing.
C7_Step(p) ==
    LET b == op[p].bookingId IN
    /\ ( /\ pc[p] = "d_delete" /\ Stepped(p)
         /\ err'[p] \notin FaultErrors \cup {"WriteConflict"} )
       => (pc'[p] = "commit" /\ err'[p] = "none" /\ bookings' = bookings)
    /\ ( /\ pc[p] = "d_delete" /\ Stepped(p)
         /\ b \notin DOMAIN bookings /\ err'[p] \notin FaultErrors )
       => (pc'[p] = "commit" /\ err'[p] = "none" /\ pend'[p] = <<>>)
    /\ ( /\ op[p].kind = "delete" /\ pc[p] = "commit" /\ pc'[p] = "end" )
       => ( /\ txn'[p] = "committed" /\ err'[p] = "none"
            /\ ret'[p].deleted <=> (b \in DOMAIN bookings /\ b \notin DOMAIN bookings')
            /\ pend[p] = <<>> => (~ret'[p].deleted /\ bookings' = bookings)
            /\ \A x \in DOMAIN bookings \ {b} :
                  x \in DOMAIN bookings' /\ bookings'[x] = bookings[x] )

C7_Done(p) ==
    (pc[p] = "done" /\ op[p].kind = "delete" /\ err[p] = "none")
    => (txn[p] = "committed" /\ sess[p] = "ended")

\* C7: delete commits found or not, returns true exactly when a Booking was
\* removed, and for an absent id returns false without throwing or changing
\* the store.
C7_DeleteIdempotent ==
    /\ [](\A p \in Procs : C7_Done(p))
    /\ [][\A p \in Procs : C7_Step(p)]_vars

\* A delete of the Booking that an earlier delete already removed has
\* returned false.
C7_Witness ==
    \E p \in Procs :
        /\ pc[p] = "done" /\ op[p].kind = "delete" /\ err[p] = "none"
        /\ op[p].bookingId = 1 /\ 1 \notin DOMAIN bookings
        /\ ~ret[p].deleted /\ txn[p] = "committed"

\* ---------------------------------------------------------------------- C8
\* C8: updateBookingWithTransaction on an id no Booking has fails with the
\* not-found error, aborts and changes nothing; when it commits, that Booking
\* has the new email trimmed and lowercased and its old eventId, every other
\* Booking is as before, and the updated Booking is what is returned.
Blank(s) == \A i \in 1..Len(s) : s[i] = SP
LowerOf(c, d) ==
    /\ d \notin {"A", "B"}
    /\ \/ d = c
       \/ <<c, d>> \in { <<"A", "a">>, <<"B", "b">> }

\* m is raw without its leading and trailing blanks, in lower case.
TrimmedLowercaseOf(m, raw) ==
    \E i, j \in 0..Len(raw) :
        /\ i + j <= Len(raw)
        /\ Blank(SubSeq(raw, 1, i))
        /\ Blank(SubSeq(raw, Len(raw) - j + 1, Len(raw)))
        /\ Len(m) = Len(raw) - i - j
        /\ m # <<>> => (m[1] # SP /\ m[Len(m)] # SP)
        /\ \A k \in 1..Len(m) : LowerOf(raw[i + k], m[k])

C8_Step(p) ==
    LET b == op[p].bookingId IN
    /\ ( /\ pc[p] = "u_find" /\ Stepped(p)
         /\ b \notin DOMAIN bookings /\ err'[p] \notin FaultErrors )
       => (err'[p] = "BookingNotExist" /\ pc'[p] = "abort" /\ pend'[p] = <<>>
           /\ bookings' = bookings)
    /\ ( /\ err[p] = "BookingNotExist" /\ pc[p] \in {"abort", "end"} /\ Stepped(p)
         /\ err'[p] \notin FaultErrors )
       => ( /\ err'[p] = "BookingNotExist" /\ bookings' = bookings /\ pend'[p] = <<>>
            /\ (pc[p] = "abort" => txn'[p] = "aborted")
            /\ (pc[p] = "end" => txn'[p] = "aborted" /\ sess'[p] = "ended") )
    /\ ( /\ op[p].kind = "update" /\ pc[p] = "commit" /\ pc'[p] = "end" )
       => ( /\ b \in DOMAIN bookings /\ DOMAIN bookings' = DOMAIN bookings
            /\ TrimmedLowercaseOf(bookings'[b].email, op[p].email)
            /\ bookings'[b].eventId = bookings[b].eventId
            /\ \A x \in DOMAIN bookings \ {b} : bookings'[x] = bookings[x]
            /\ ret'[p].booking = <<[id |-> b, doc |-> bookings'[b]]>>
            /\ err'[p] = "none" /\ txn'[p] = "committed" )

\* C8: update fails with not-found and aborts on a missing id; otherwise the
\* committed Booking has the trimmed lowercase email, the same eventId, no
\* other Booking changed, and is the value returned.
C8_UpdateContract == [][\A p \in Procs : C8_Step(p)]_vars

C8_Witness ==
    \E p \in Procs :
        /\ pc[p] = "done" /\ op[p].kind = "update" /\ err[p] = "none"
        /\ op[p].email = <<"A", SP>>
        /\ ret[p].booking # <<>>
        /\ ret[p].booking[1].doc.email = <<"a">>
        /\ ret[p].booking[1].id \in DOMAIN bookings
        /\ bookings[ret[p].booking[1].id] = ret[p].booking[1].doc

C8_WitnessMissing ==
    \E p \in Procs :
        /\ pc[p] = "done" /\ op[p].kind = "update" /\ err[p] = "BookingNotExist"
        /\ txn[p] = "aborted"

\* ---------------------------------------------------------------------- C9
\* C9: no two Event documents ever hold the same slug, whatever the
\* interleaving of concurrent creations and renames; a save whose write is
\* rejected by the unique slug index has ended in failure (it is not retried)
\* and, if it was a creation, stored no document.
C9_UniqueSlug ==
    /\ \A e1, e2 \in DOMAIN events : e1 # e2 => events[e1].slug # events[e2].slug
    /\ \A p \in Procs :
          saver[p].err = "DuplicateKey"
          => ( /\ saver[p].pc = "done"
               /\ saver[p].isNew => saver[p].id \notin DOMAIN events
               /\ \E e \in DOMAIN events \ {saver[p].id} : TRUE )

\* Two saves raced to the same candidate: one is stored, the other was
\* rejected by the index.
C9_Witness ==
    \E p, q \in Procs :
        /\ p # q
        /\ saver[p].pc = "done" /\ saver[p].err = "DuplicateKey"
        /\ saver[q].pc = "done" /\ saver[q].err = "none"
        /\ saver[q].slug = saver[p].slug
        /\ saver[q].id \in DOMAIN events
        /\ events[saver[q].id].slug = saver[p].slug

\* --------------------------------------------------------------------- C10
\* C10: for creations issued one after another, the resolver returns the
\* first of base, base-1, base-2, ... that no other Event holds; when all
\* stored Events come from titles with one base slug, the Nth created holds
\* base-(N-1) and the first holds base.
Decimal == <<"1", "2", "3", "4", "5", "6", "7", "8", "9">>
Candidate(base, k) == IF k = 0 THEN base ELSE base \o <<"-", Decimal[k]>>
HeldSlugs(excludeId) == { events[e].slug : e \in DOMAIN events \ {excludeId} }

FirstFree(base, excludeId) ==
    LET n == Cardinality(DOMAIN events)
        free == { k \in 0..n : Candidate(base, k) \notin HeldSlugs(excludeId) }
    IN  Candidate(base, CHOOSE k \in free : \A j \in free : k <= j)

C10_Step(p) ==
    (saver[p].pc = "lookup" /\ saver'[p].pc = "write")
    => saver'[p].slug = FirstFree(generateSlug(saver[p].title), saver[p].id)

BaseOf(e) == generateSlug(events[e].title)
IndexOf(e) == CHOOSE i \in 1..Len(EventOrder) : EventOrder[i] = e
\* How many Events of the same base slug were created before e.
RankOf(e) ==
    Cardinality({ x \in DOMAIN events : BaseOf(x) = BaseOf(e) /\ IndexOf(x) < IndexOf(e) })
\* No Event of another base slug holds one of the candidates of e's base.
CandidatesOwn(e) ==
    \A x \in DOMAIN events :
        BaseOf(x) # BaseOf(e)
        => \A k \in 0..Cardinality(DOMAIN events) : events[x].slug # Candidate(BaseOf(e), k)

\* C10 as stated: among the Events of one base slug, the Nth created holds
\* base-(N-1).
C10_NthAmongSameBase ==
    \A e \in DOMAIN events : events[e].slug = Candidate(BaseOf(e), RankOf(e))

\* C10 amended: the same, for a base slug none of whose candidates is held by
\* an Event of another base slug; and in every case the resolver returns the
\* first candidate no other Event holds.
C10_NthPattern ==
    \A e \in DOMAIN events :
        CandidatesOwn(e) => events[e].slug = Candidate(BaseOf(e), RankOf(e))

\* C10 (amended): for creations one after another the resolver returns the
\* first of base, base-1, base-2, ... held by no other Event, and the Nth
\* Event of a base holds base-(N-1) when no Event of another base holds one
\* of these candidates.
C10_SequentialSlugs ==
    /\ []C10_NthPattern
    /\ [][\A p \in Procs : C10_Step(p)]_vars

C10_Witness ==
    /\ DOMAIN events = {"e1", "e2", "e3"}
    /\ events["e1"].slug = <<"a">>
    /\ events["e2"].slug = <<"a", "-", "1">>
    /\ events["e3"].slug = <<"a", "-", "2">>
    /\ events["e2"].title # events["e3"].title

\* --------------------------------------------------------------------- C11
C11_Step(p) ==
    LET s == saver[p] IN
    /\ ( /\ s.pc = "lookup" /\ ~s.isNew /\ s.id \in DOMAIN events
         /\ s.slug = events[s.id].slug
         /\ saver'[p] # s /\ saver'[p].err # "SlugLookupError" )
       => ( /\ saver'[p].pc = "write" /\ saver'[p].err = "none"
            /\ saver'[p].slug = s.slug /\ saver'[p].counter = s.counter )
    /\ ( /\ s.pc = "write" /\ ~s.isNew /\ s.titleModified /\ s.id \in DOMAIN events
         /\ s.slug = events[s.id].slug
         /\ saver'[p] # s /\ saver'[p].err # "StoreError" )
       => ( /\ saver'[p].pc = "done" /\ saver'[p].err = "none"
            /\ events'[s.id] = EventDoc(s.title, s.slug)
            /\ \A e \in DOMAIN events \ {s.id} : events'[e] = events[e] )

\* C11: a rename whose candidate is the slug the Event itself holds finds the
\* candidate free at its lookup (the lookup excludes the document being
\* saved), is not rejected at its write, and the Event keeps that slug with
\* no counter suffix added.
C11_RenameKeepsOwnSlug == [][\A p \in Procs : C11_Step(p)]_vars

\* An Event was renamed to another title of the same base slug and still
\* holds the unsuffixed base slug.
C11_Witness ==
    \E p \in Procs :
        LET s == saver[p] IN
        /\ s.pc = "done" /\ s.err = "none" /\ ~s.isNew /\ s.titleModified
        /\ s.attempt = 0 /\ s.slug = s.baseSlug /\ s.loadedSlug = s.baseSlug
        /\ s.id \in DOMAIN events
        /\ events[s.id] = EventDoc(s.title, s.baseSlug)

\* --------------------------------------------------------------------- C12
\* One save against a collection filled by earlier saves: n Events created
\* one after another with the title "A" hold a, a-1, ..., a-(n-1); one of
\* them may since have been renamed to "b".
HeldId(k) == "h" \o (IF k < 10 THEN DigitChar(k)
                     ELSE IF k < 100 THEN DigitChar(k \div 10) \o DigitChar(k % 10)
                     ELSE DigitChar(k \div 100) \o DigitChar((k \div 10) % 10) \o DigitChar(k % 10))

RECURSIVE Filled(_, _)
Filled(n, renamed) ==
    IF n = 0 THEN <<>>
    ELSE Filled(n - 1, renamed)
         @@ (HeldId(n - 1) :>
               IF n - 1 = renamed THEN EventDoc(<<"b">>, <<"b">>)
               ELSE EventDoc(<<"A">>, IF n = 1 THEN <<"a">> ELSE Suffixed(<<"a">>, n - 1)))

FilledStores ==
    { Filled(n, r) : n \in {MAX_ATTEMPTS - 1, MAX_ATTEMPTS, MAX_ATTEMPTS + 1},
                     r \in {-1, 0, MAX_ATTEMPTS - 1} }

InitFilled ==
    /\ events \in FilledStores
    /\ bookings = <<>>
    /\ nextId = 1
    /\ calls = MaxSaves - 1
    /\ pc = [p \in Procs |-> "idle"]
    /\ op = [p \in Procs |-> NoOp]
    /\ sess = [p \in Procs |-> "none"]
    /\ txn = [p \in Procs |-> "none"]
    /\ pend = [p \in Procs |-> <<>>]
    /\ rd = [p \in Procs |-> <<>>]
    /\ err = [p \in Procs |-> "none"]
    /\ ret = [p \in Procs |-> NoRet]
    /\ saver = [p \in Procs |-> IdleSaver]
    /\ ConnInit
    /\ timeCall = NoTimeCall

NextFilled ==
    \/ \E p \in Procs : SaveNew(p)
    \/ \E p \in Procs : SaveRename(p)
    \/ \E p \in Procs : SlugLookup(p)
    \/ \E p \in Procs : EventWrite(p)

SpecFilled == InitFilled /\ [][NextFilled]_vars

SlugFailures == {"SlugLookupError", "SlugExhausted"}

\* The k-th candidate of a base slug, k counted from 0.
CandidateAt(base, k) == IF k = 0 THEN base ELSE base \o <<"-">> \o NumberToString(k)

\* The base slug and base-1 .. base-99 are all held by Events other than id.
AllCandidatesHeld(base, id) ==
    \A k \in 0..(MAX_ATTEMPTS - 1) :
        \E e \in DOMAIN events \ {id} : events[e].slug = CandidateAt(base, k)

C12_State(p) ==
    LET s == saver[p] IN
    /\ s.attempt <= MAX_ATTEMPTS
    /\ s.pc = "lookup" => (s.attempt < MAX_ATTEMPTS /\ s.slug = CandidateAt(s.baseSlug, s.attempt))
    /\ s.err = "SlugExhausted"
       => (s.attempt = MAX_ATTEMPTS /\ AllCandidatesHeld(s.baseSlug, s.id))
    /\ (s.pc \in {"write", "done"} /\ s.titleModified /\ s.err \notin SlugFailures)
       => ~AllCandidatesHeld(s.baseSlug, s.id)
    /\ s.err \in SlugFailures
       => ( /\ s.pc = "done"
            /\ events \in FilledStores
            /\ s.isNew => s.id \notin DOMAIN events )

C12_Step(p) ==
    LET s == saver[p] IN
    /\ ( /\ s.pc = "lookup" /\ saver'[p] # s /\ saver'[p].err # "SlugLookupError"
         /\ ~\E e \in DOMAIN events \ {s.id} : events[e].slug = s.slug )
       => (saver'[p].pc = "write" /\ saver'[p].slug = s.slug /\ saver'[p].err = "none")
    /\ ( /\ s.pc = "lookup" /\ saver'[p].err = "SlugLookupError" )
       => (saver'[p].pc = "done" /\ saver'[p].attempt = s.attempt)
    /\ ( /\ s.pc = "lookup" /\ saver'[p] # s ) => events' = events

\* C12: slug resolution makes at most 100 lookups; it returns the candidate of
\* the first lookup that finds no other holder; it fails as exhausted exactly
\* when base and base-1 .. base-99 are all held by other Events, and fails at
\* the first lookup that is not answered; a failed resolution rejects the save
\* with no Event written or changed.
C12_BoundedResolution ==
    /\ [](\A p \in Procs : C12_State(p))
    /\ [][\A p \in Procs : C12_Step(p)]_vars

\* A creation found all 100 candidates held and was rejected as exhausted.
C12_Witness ==
    \E p \in Procs :
        /\ saver[p].pc = "done" /\ saver[p].err = "SlugExhausted"
        /\ saver[p].isNew /\ saver[p].attempt = MAX_ATTEMPTS
        /\ saver[p].id \notin DOMAIN events

\* A resolution returned the candidate of its 100th lookup.
C12_WitnessLast ==
    \E p \in Procs :
        /\ saver[p].pc = "done" /\ saver[p].err = "none"
        /\ saver[p].attempt = MAX_ATTEMPTS - 1
        /\ saver[p].slug = CandidateAt(saver[p].baseSlug, MAX_ATTEMPTS - 1)

\* ------------------------------------------------------- connection cache
\* connectDB (part_000).  JavaScript runs one job at a time; a job that is
\* queued runs after every job queued before it.  A connectDB call runs from
\* its entry to its await in one job, and from its await to its return or
\* throw in another, queued when the awaited promise is settled (or at the
\* await itself, when the promise is settled already).
CallJob(c) == [kind |-> "call", who |-> c]
ContJob(c) == [kind |-> "cont", who |-> c]

RECURSIVE ContJobs(_)
ContJobs(ws) == IF ws = <<>> THEN <<>> ELSE <<ContJob(Head(ws))>> \o ContJobs(Tail(ws))

\* Some code on the event loop is about to call connectDB.
ConnSchedule(c) ==
    /\ caller[c].pc \in {"idle", "done"}
    /\ connCalls < MaxConnCalls
    /\ connCalls' = connCalls + 1
    /\ jobs' = Append(jobs, CallJob(c))
    /\ caller' = [caller EXCEPT ![c] = [IdleCaller EXCEPT !.pc = "queued"]]
    /\ UNCHANGED <<cached, attempts, storeVars, calls, callVars, saver, timeCall>>

\* The catch block of connectDB: cached.promise = null, whatever promise the
\* marker holds by then.
ResetPromiseKept(k) == cached.promise
ResetPromise(k) == 0

\* if (!cached.promise)
NoAttemptMarked == cached.promise = 0

\* connectDB from its entry to the await of line 57.
ConnectDB(c) ==
    /\ jobs # <<>> /\ Head(jobs) = CallJob(c)
    /\ IF cached.conn # 0
       THEN /\ caller' = [caller EXCEPT ![c] = [IdleCaller EXCEPT !.pc = "done", !.res = cached.conn]]
            /\ jobs' = Tail(jobs)
            /\ UNCHANGED <<cached, attempts>>
       ELSE LET start == NoAttemptMarked
                atts == IF start THEN Append(attempts, [state |-> "pending", waiters |-> <<>>])
                        ELSE attempts
                k == IF start THEN Len(atts) ELSE cached.promise
            IN  /\ cached' = [cached EXCEPT !.promise = k]
                /\ caller' = [caller EXCEPT ![c] = [IdleCaller EXCEPT !.pc = "await", !.on = k]]
                /\ IF atts[k].state = "pending"
                   THEN /\ attempts' = [atts EXCEPT ![k].waiters = Append(@, c)]
                        /\ jobs' = Tail(jobs)
                   ELSE /\ attempts' = atts
                        /\ jobs' = Append(Tail(jobs), ContJob(c))
    /\ UNCHANGED <<connCalls, storeVars, calls, callVars, saver, timeCall>>

\* connectDB from the await of line 57 to its return or throw.
ConnectDBResume(c) ==
    /\ jobs # <<>> /\ Head(jobs) = ContJob(c)
    /\ LET k == caller[c].on IN
       IF attempts[k].state = "resolved"
       THEN /\ cached' = [cached EXCEPT !.conn = k]
            /\ caller' = [caller EXCEPT ![c].pc = "done", ![c].res = cached'.conn]
       ELSE /\ cached' = [cached EXCEPT !.promise = ResetPromise(k)]
            /\ caller' = [caller EXCEPT ![c].pc = "done", ![c].failed = TRUE]
    /\ jobs' = Tail(jobs)
    /\ UNCHANGED <<attempts, connCalls, storeVars, calls, callVars, saver, timeCall>>

\* The promise of mongoose.connect is settled: the continuations registered
\* on it are queued in registration order.
ConnSettle(k) ==
    /\ k \in 1..Len(attempts)
    /\ attempts[k].state = "pending"
    /\ \E outcome \in {"resolved", "rejected"} :
         attempts' = [attempts EXCEPT ![k] = [state |-> outcome, waiters |-> <<>>]]
    /\ jobs' = jobs \o ContJobs(attempts[k].waiters)
    /\ UNCHANGED <<cached, caller, connCalls, storeVars, calls, callVars, saver, timeCall>>

NextConn ==
    \/ \E c \in Callers : ConnSchedule(c)
    \/ \E c \in Callers : ConnectDB(c)
    \/ \E c \in Callers : ConnectDBResume(c)
    \/ \E k \in 1..MaxConnCalls : ConnSettle(k)

SpecConn == InitSlug /\ [][NextConn]_vars

Unresolved == { k \in 1..Len(attempts) : attempts[k].state = "pending" }
CallRuns(c) == caller[c].pc = "queued" /\ caller'[c].pc # "queued"
Resumes(c) == caller[c].pc = "await" /\ caller'[c].pc = "done"

\* --------------------------------------------------------------------- C13
\* C13: a connectDB call that runs while a connection attempt is unresolved
\* awaits that attempt and starts none; a continuation resumed on a resolved
\* attempt returns the handle that attempt resolved with, which is then the
\* cached one; a call that finds a cached handle returns it and starts no
\* attempt.
C13_SharedAttempt ==
    [][\A c \in Callers :
          /\ (CallRuns(c) /\ Unresolved # {})
             => ( /\ Len(attempts') = Len(attempts)
                  /\ caller'[c].pc = "await" /\ caller'[c].on \in Unresolved )
          /\ (Resumes(c) /\ attempts[caller[c].on].state = "resolved")
             => ( /\ caller'[c].res = caller[c].on /\ ~caller'[c].failed
                  /\ cached'.conn = caller[c].on )
          /\ (CallRuns(c) /\ cached.conn # 0)
             => ( /\ caller'[c].pc = "done" /\ caller'[c].res = cached.conn
                  /\ attempts' = attempts /\ cached' = cached )]_vars

\* --------------------------------------------------------------------- C14
C14_State ==
    /\ cached.conn # 0 => attempts[cached.conn].state = "resolved"
    /\ \A c \in Callers :
          ( /\ caller[c].pc = "done" /\ caller[c].on # 0
            /\ attempts[caller[c].on].state = "rejected" )
          => (caller[c].failed /\ caller[c].res = 0)

C14_Step(c) ==
    /\ (Resumes(c) /\ attempts[caller[c].on].state = "rejected")
       => ( /\ caller'[c].failed /\ caller'[c].res = 0
            /\ cached'.promise = 0 /\ cached'.conn = cached.conn )
    /\ (CallRuns(c) /\ cached.conn = 0 /\ cached.promise = 0)
       => ( /\ Len(attempts') = Len(attempts) + 1
            /\ attempts'[Len(attempts')].state = "pending"
            /\ caller'[c].on = Len(attempts') /\ cached'.promise = Len(attempts') )

\* C14: every caller that awaited a failed attempt receives the failure;
\* its failure handling leaves the in-flight marker cleared and caches no
\* handle; a call that then finds neither handle nor marker starts a fresh
\* attempt.
C14_FailureClearsMarker ==
    /\ []C14_State
    /\ [][\A c \in Callers : C14_Step(c)]_vars

\* Two callers received the failure of the first attempt, and a later call
\* got the handle of a fresh attempt.
C14_Witness ==
    \E c, d, e \in Callers :
        /\ c # d /\ d # e /\ c # e
        /\ caller[c].pc = "done" /\ caller[c].failed /\ caller[c].on = 1
        /\ caller[d].pc = "done" /\ caller[d].failed /\ caller[d].on = 1
        /\ caller[e].pc = "done" /\ caller[e].res > 1 /\ cached.conn = caller[e].res

\* --------------------------------------------------------------------- C15
\* C15: in every reachable state at most one connection attempt is
\* unresolved.
C15_AtMostOneAttemptUnresolved == Cardinality(Unresolved) <= 1

\* Arguments: every H or HH, every MM, with and without an AM/PM suffix in
\* either case, with and without the blank before it.
HourStrings == { <<a>> : a \in Digits } \cup { <<a, b>> : a \in {"0", "1", "2", "3"}, b \in Digits }
MinuteStrings == { <<a, b>> : a \in Digits, b \in {"0", "5", "9"} }
Suffixes == { <<>>, <<SP, "A", "M">>, <<"P", "M">>, <<SP, "p", "m">>, <<"a", "m">> }

InitTime ==
    /\ events = <<>>
    /\ bookings = <<>>
    /\ nextId = 1
    /\ calls = 0
    /\ pc = [p \in Procs |-> "idle"]
    /\ op = [p \in Procs |-> NoOp]
    /\ sess = [p \in Procs |-> "none"]
    /\ txn = [p \in Procs |-> "none"]
    /\ pend = [p \in Procs |-> <<>>]
    /\ rd = [p \in Procs |-> <<>>]
    /\ err = [p \in Procs |-> "none"]
    /\ ret = [p \in Procs |-> NoRet]
    /\ saver = [p \in Procs |-> IdleSaver]
    /\ ConnInit
    /\ \E h \in HourStrings, m \in MinuteStrings, x \in Suffixes :
         timeCall = [pc |-> "called", hour |-> h, minute |-> m, suffix |-> x,
                     arg |-> h \o <<":">> \o m \o x, ok |-> FALSE, value |-> <<>>]

NormalizeTimeCall ==
    /\ timeCall.pc = "called"
    /\ LET r == normalizeTime(timeCall.arg) IN
       timeCall' = [timeCall EXCEPT !.pc = "returned", !.ok = r.ok, !.value = r.value]
    /\ UNCHANGED <<storeVars, calls, callVars, saver, connVars>>

SpecTime == InitTime /\ [][NormalizeTimeCall]_vars

\* --------------------------------------------------------------------- C17
HourOf(t) == ParseInt(t.hour)
MinuteOf(t) == ParseInt(t.minute)
SuffixOf(t) == IF t.suffix = <<>> THEN "none"
               ELSE IF t.suffix[Len(t.suffix) - 1] \in {"A", "a"} THEN "AM" ELSE "PM"
TwoDigits(n) == <<DigitChar(n \div 10), DigitChar(n % 10)>>

\* The hour the claim gives for an accepted argument.
ClaimedHour(t) ==
    CASE SuffixOf(t) = "none" -> HourOf(t)
      [] SuffixOf(t) = "PM" -> IF HourOf(t) = 12 THEN 12 ELSE HourOf(t) + 12
      [] SuffixOf(t) = "AM" -> IF HourOf(t) = 12 THEN 0 ELSE HourOf(t)

C17_ResultShape ==
    (timeCall.pc = "returned" /\ timeCall.ok)
    => ( /\ ClaimedHour(timeCall) \in 0..23 /\ MinuteOf(timeCall) \in 0..59
         /\ timeCall.value = TwoDigits(ClaimedHour(timeCall)) \o <<":">> \o timeCall.minute )

C17_FailsOutOfRange ==
    ( /\ timeCall.pc = "returned"
      /\ \/ MinuteOf(timeCall) > 59
         \/ SuffixOf(timeCall) = "none" /\ HourOf(timeCall) > 23
         \/ SuffixOf(timeCall) # "none" /\ HourOf(timeCall) \notin 1..12 )
    => ~timeCall.ok

\* C17: normalizeTime on H:MM or HH:MM with an optional AM/PM suffix either
\* fails or returns the zero-padded 24-hour HH:MM the conversion rules give,
\* and it fails whenever the minute exceeds 59 or the hour is out of range,
\* an hour outside 1..12 with an AM/PM suffix included.
C17_NormalizeTime == C17_ResultShape /\ C17_FailsOutOfRange

\* --------------------------------------------------------------------- C16
\* Event saves that create Events and edit their title, date and time.
NextFields ==
    \/ \E p \in Procs : SaveNew(p)
    \/ \E p \in Procs : SaveEdit(p)
    \/ \E p \in Procs : SlugLookup(p)
    \/ \E p \in Procs : EventWrite(p)

SpecFields == InitSlug /\ [][NextFields]_vars

C16_State(p) ==
    LET s == saver[p] IN
    /\ "slug" \in s.ran => (s.isNew \/ s.titleModified)
    /\ "date" \in s.ran => (s.isNew \/ s.dateModified)
    /\ "time" \in s.ran => (s.isNew \/ s.timeModified)
    /\ (s.pc = "lookup" \/ s.attempt > 0) => (s.isNew \/ s.titleModified)
    /\ (s.pc \in {"write", "done"} /\ s.err = "none")
       => ( /\ (s.isNew \/ s.titleModified) => "slug" \in s.ran
            /\ (s.isNew \/ s.dateModified) => "date" \in s.ran
            /\ (s.isNew \/ s.timeModified) => "time" \in s.ran )

C16_Step(p) ==
    LET s == saver[p] IN
    (s.pc = "write" /\ ~s.isNew /\ saver'[p].pc = "done" /\ saver'[p].err = "none")
    => ( /\ ~s.titleModified => ( /\ events'[s.id].slug = events[s.id].slug
                                  /\ events'[s.id].title = events[s.id].title )
         /\ ~s.dateModified => events'[s.id].date = events[s.id].date
         /\ ~s.timeModified => events'[s.id].time = events[s.id].time
         /\ s.dateModified => events'[s.id].date \in {"2025-03-07", "2025-03-08"}
         /\ s.timeModified => events'[s.id].time \in {CanonTime, <<"0", "9", ":", "0", "5">>}
         /\ (~s.titleModified /\ ~s.dateModified /\ ~s.timeModified)
            => (events' = events /\ s.attempt = 0 /\ s.ran = {}) )

\* C16: a save runs the slug section of the hook only for a new Event or a
\* modified title, the date section only for a modified date and the time
\* section only for a modified time; a save that modifies none of them makes
\* no slug lookup and leaves the stored slug, date and time as they are.
C16_OnlyModifiedPaths ==
    /\ [](\A p \in Procs : C16_State(p))
    /\ [][\A p \in Procs : C16_Step(p)]_vars

\* A save that modified nothing has completed, and a save that modified only
\* the time has stored the normalized time.
C16_Witness ==
    \E p, q \in Procs :
        /\ saver[p].pc = "done" /\ saver[p].err = "none" /\ ~saver[p].isNew
        /\ ~saver[p].titleModified /\ ~saver[p].dateModified /\ ~saver[p].timeModified
        /\ saver[p].ran = {} /\ saver[p].attempt = 0
        /\ saver[q].pc = "done" /\ saver[q].err = "none" /\ ~saver[q].isNew
        /\ ~saver[q].titleModified /\ ~saver[q].dateModified /\ saver[q].timeModified
        /\ saver[q].ran = {"time"}
        /\ events[saver[q].id].time = <<"0", "9", ":", "0", "5">>
        /\ events[saver[q].id].date = CanonDate

\* --------------------------------------------------------------------- C18
\* C18: once a step in the body of an operation has failed, the failure being
\* propagated stays that failure through the abort and the end of the
\* session.
C18_OriginalFailureKept ==
    [][\A p \in Procs :
          (pc[p] \in {"abort", "end"} /\ err[p] # "none" /\ Stepped(p))
          => err'[p] = err[p]]_vars

\* --------------------------------------------------------------------- C19
C19_Pair(p, q) ==
    /\ p # q /\ calls = 2
    /\ pc[p] = "done" /\ pc[q] = "done"
    /\ op[p].kind = "update" /\ op[q].kind = "delete"
    /\ op[p].bookingId = op[q].bookingId

\* C19: after an update and a delete of the same Booking have both finished,
\* in whatever interleaving, the Booking is absent if the delete returned
\* true, and if the update returned and the Booking still exists it carries
\* the new email, trimmed and lowercased, and is the Booking returned.
C19_UpdateDeleteConsistent ==
    \A p, q \in Procs :
        C19_Pair(p, q)
        => LET b == op[p].bookingId IN
           /\ (err[q] = "none" /\ ret[q].deleted) => b \notin DOMAIN bookings
           /\ (err[q] = "none" /\ ~ret[q].deleted) => (err[p] # "none" \/ b \in DOMAIN bookings)
           /\ (err[p] = "none" /\ b \in DOMAIN bookings)
              => ( /\ TrimmedLowercaseOf(bookings[b].email, op[p].email)
                   /\ ret[p].booking = <<[id |-> b, doc |-> bookings[b]]>> )
           /\ (err[p] = "none" /\ err[q] = "none") => ret[q].deleted

\* The two ran concurrently: the delete removed the Booking and the update,
\* which had read it, was refused its write.
C19_Witness ==
    \E p, q \in Procs :
        /\ C19_Pair(p, q)
        /\ err[q] = "none" /\ ret[q].deleted
        /\ err[p] = "WriteConflict" /\ rd[p] # <<>>
        /\ op[p].bookingId \notin DOMAIN bookings

\* The update committed first and the delete then removed the Booking.
C19_WitnessBoth ==
    \E p, q \in Procs :
        /\ C19_Pair(p, q)
        /\ err[p] = "none" /\ err[q] = "none" /\ ret[q].deleted
        /\ ret[p].booking # <<>>
        /\ op[p].bookingId \notin DOMAIN bookings

====
